---- MODULE Spec2Model ----
(***************************************************************************)
(* Model of the AI interview system: the scheduler that dials due          *)
(* interviews (app/services/scheduler.py) and the TwiML call flow with     *)
(* its status callback (app/routers/voice.py), sharing the Interview rows  *)
(* of the session store; and the realtime relay between the telephony     *)
(* media stream and the speech-AI session (main.py, voice_stream).         *)
(***************************************************************************)
EXTENDS Integers, Sequences, FiniteSets, TLC

\* ---------------------------------------------------------------- bounds
NumInterviews == 1      \* Interview rows in the store
MaxCalls == 1           \* calls the provider holds unresolved at a time
MaxTime == 1            \* the clock runs 0..MaxTime
MaxQ == 2               \* most questions the question bank holds
MaxLogs == 2            \* most reverse questions logged per interview
MaxReviews == 2         \* most InterviewReview rows per interview
MaxFrames == 3          \* media frames the telephony stream delivers
MaxEvents == 2          \* events the AI session emits
MaxClock == 900         \* the relay's clock runs 0..MaxClock, in ms
TimeStep == 300         \* the clock advances in steps of TimeStep ms

Interviews == 1..NumInterviews
None == "None"
\* An optional value that is no string: unset, or one value.
Unset == <<>>
Some(x) == <<x>>
Value(opt) == opt[1]

Statuses == {"scheduled", "calling", "in_progress", "completed",
             "interrupted", "reschedule_requested", "failed"}
Stages == {"greeting", "time_check", "main_qa", "reverse_qa", "ending"}
NeverConnected == {"busy", "no-answer", "failed"}
CallStatuses == {"completed"} \cup NeverConnected

\* ------------------------------------------------------------ variables
VARIABLES
    now,                  \* datetime.utcnow(), in minutes
    rows,                 \* the ids session.get(Interview, id) finds a row for
    question_bank,        \* the Question rows of the candidate's set, by order
    status,               \* Interview.status
    current_stage,        \* Interview.current_stage
    session_snapshot,     \* Interview.session_snapshot (unset until first call)
    last_completed_q_id,  \* Interview.last_completed_q_id
    reservation_time,     \* Interview.reservation_time
    resume_count,         \* Interview.resume_count
    retry_count,          \* Interview.retry_count
    reviews,              \* InterviewReview rows, per interview, in insert order
    reverse_qa_logs,      \* Interview.reverse_qa_logs, per interview
    stt_tasks,            \* background tasks process_stt_background not run yet
    stt_running,          \* tasks that have read their review and wait for the text
    qa_running,           \* per interview, the reverse_qa_process handler that waits
                          \* for the text: what it read before the wait
    notifications,        \* SMS / e-mail notifications sent, per interview
    ticks,                \* the running check_scheduled_interviews runs (a bag)
    placed,               \* calls the provider accepted and has not resolved yet
    call,                 \* the answered call of an interview: its next request
    callbacks,            \* status callbacks the provider still has to deliver
    dial_failed,          \* observation: a dial request for the interview failed
    dial_ok,              \* observation: successful dial requests
    unconnected,          \* observation: consecutive callbacks of calls never connected
    misfired,             \* observation: a firing was skipped while a run executed
    time_ms,              \* time.time() * 1000 of the relay
    stream_sid,           \* voice_stream: stream_sid
    is_speaking,          \* voice_stream: is_speaking
    last_speech_time,     \* voice_stream: last_speech_time
    consecutive_voice_count, \* voice_stream: consecutive_voice_count
    ai_is_speaking,       \* voice_stream: ai_is_speaking
    latest_media_timestamp, \* voice_stream: latest_media_timestamp
    twilio_loop,          \* receive_from_twilio: the await it is at, or done
    openai_loop,          \* receive_from_openai: the await it is at, or done
    audio_payload,        \* receive_from_twilio: audio_payload of the frame in hand
    call_id,              \* receive_from_openai: call_id of the call in hand
    websocket,            \* the telephony websocket: open or closed
    openai_ws,            \* the AI session's websocket: open or closed
    to_openai,            \* messages sent to the AI session, in order
    to_twilio,            \* messages sent to the telephony leg, in order
    from_openai,          \* events the AI session sent, not received yet
    ai_response,          \* AI session: responses requested and not finished
    emitted,              \* events the AI session has emitted
    buffered_for_later    \* observation: line 203 was logged since the last commit

app_vars == <<now, rows, question_bank, status, current_stage, session_snapshot,
          last_completed_q_id, reservation_time, resume_count, retry_count,
          reviews, reverse_qa_logs, stt_tasks, stt_running, qa_running,
          notifications, ticks, placed,
          call, callbacks, dial_failed, dial_ok, unconnected, misfired>>

vad_vars == <<is_speaking, last_speech_time, consecutive_voice_count>>
relay_vars == <<time_ms, stream_sid, vad_vars, ai_is_speaking,
                latest_media_timestamp, twilio_loop, openai_loop, websocket,
                openai_ws, to_openai, to_twilio, from_openai, ai_response,
                emitted, buffered_for_later, audio_payload, call_id>>
vars == <<app_vars, relay_vars>>

interview_vars == <<status, current_stage, session_snapshot,
                    last_completed_q_id, reservation_time, resume_count,
                    retry_count, reviews, reverse_qa_logs, stt_tasks,
                    stt_running, qa_running, notifications>>
obs_vars == <<dial_failed, dial_ok, unconnected, misfired>>
call_vars == <<placed, call, callbacks>>

\* ------------------------------------------------------------- helpers
Question(id, text) == [id |-> id, text |-> text]

\* The banks an administrator can leave behind: 0..MaxQ questions, ordered;
\* the first question is reworded in the full bank.
Banks ==
    {[k \in 1..n |-> Question(k, IF k = 1 /\ n = MaxQ THEN "b" ELSE "a")] :
        n \in 0..MaxQ}

\* TwiML: a response is the sequence of its verbs.
Say(what) == [verb |-> "say", arg |-> what]
Pause == [verb |-> "pause", arg |-> "1"]
Gather(action) == [verb |-> "gather", arg |-> action]
Record(action) == [verb |-> "record", arg |-> action]
Redirect(url) == [verb |-> "redirect", arg |-> url]
Hangup == [verb |-> "hangup", arg |-> ""]
\* The answer to a request whose handler raised: HTTP 500, no TwiML.
ServerError == [verb |-> "error", arg |-> "500"]

\* The answered call of an interview: the request the provider makes next
\* (pc), its q_index and first_time parameters, and the last response.
IdleCall == [pc |-> "idle", q_index |-> 0, first_time |-> TRUE, response |-> <<>>]
Request(pc, q_index, first_time, response) ==
    [pc |-> pc, q_index |-> q_index, first_time |-> first_time,
     response |-> response]

\* The request handlers are coroutines of one event loop: while
\* reverse_qa_process blocks in transcribe_audio_url no other handler runs.
EventLoopFree == \A i \in Interviews : qa_running[i] = Unset

\* Bags of runs: how many runs are in each state.
Count(bag, r) == IF r \in DOMAIN bag THEN bag[r] ELSE 0
Put(bag, r) ==
    [x \in DOMAIN bag \cup {r} |-> Count(bag, x) + (IF x = r THEN 1 ELSE 0)]
Take(bag, r) ==
    [x \in {y \in DOMAIN bag : y # r \/ bag[y] > 1} |->
        bag[x] - (IF x = r THEN 1 ELSE 0)]
RECURSIVE Size(_)
Size(bag) ==
    IF DOMAIN bag = {} THEN 0
    ELSE LET r == CHOOSE x \in DOMAIN bag : TRUE
         IN bag[r] + Size([x \in DOMAIN bag \ {r} |-> bag[x]])
NoRuns == [x \in {} |-> 0]

\* Calls of an interview the provider has not finished reporting.
UnresolvedOf(i) ==
    placed[i] + (IF call[i].pc = "idle" THEN 0 ELSE 1)
    + callbacks[i]["completed"] + callbacks[i]["busy"]
    + callbacks[i]["no-answer"] + callbacks[i]["failed"]
RECURSIVE UnresolvedUpTo(_)
UnresolvedUpTo(n) == IF n = 0 THEN 0 ELSE UnresolvedOf(n) + UnresolvedUpTo(n - 1)
Unresolved == UnresolvedUpTo(NumInterviews)

\* Messages on the two websockets.
Msg(type, arg) == [type |-> type, arg |-> arg]

\* -------------------------------------------------------------- Init
\* voice_stream up to its two loops: both websockets are open, session.update
\* and the response.create of the greeting have been sent.
RelayInit ==
    /\ time_ms = 0
    /\ stream_sid = None
    /\ is_speaking = FALSE
    /\ last_speech_time = 0
    /\ consecutive_voice_count = 0
    /\ ai_is_speaking = FALSE
    /\ latest_media_timestamp = 0
    /\ twilio_loop = "running"
    /\ openai_loop = "running"
    /\ audio_payload = None
    /\ call_id = None
    /\ websocket = "open"
    /\ openai_ws = "open"
    /\ to_openai = <<Msg("session.update", ""), Msg("response.create", "greeting")>>
    /\ to_twilio = <<>>
    /\ from_openai = <<>>
    /\ ai_response = [requested |-> 1, audio |-> FALSE]
    /\ emitted = 0
    /\ buffered_for_later = FALSE

\* Every interview has been booked: scheduled for some time, never called.
Init ==
    /\ now = 0
    /\ rows = Interviews
    /\ question_bank \in Banks
    /\ status = [i \in Interviews |-> "scheduled"]
    /\ current_stage = [i \in Interviews |-> None]
    /\ session_snapshot = [i \in Interviews |-> Unset]
    /\ last_completed_q_id = [i \in Interviews |-> Unset]
    /\ reservation_time \in [Interviews -> 0..MaxTime]
    /\ resume_count = [i \in Interviews |-> 0]
    /\ retry_count = [i \in Interviews |-> 0]
    /\ reviews = [i \in Interviews |-> <<>>]
    /\ reverse_qa_logs = [i \in Interviews |-> <<>>]
    /\ stt_tasks = {}
    /\ stt_running = {}
    /\ qa_running = [i \in Interviews |-> Unset]
    /\ notifications = [i \in Interviews |-> [sms |-> 0, email |-> 0]]
    /\ ticks = NoRuns
    /\ placed = [i \in Interviews |-> 0]
    /\ call = [i \in Interviews |-> IdleCall]
    /\ callbacks = [i \in Interviews |-> [cs \in CallStatuses |-> 0]]
    /\ dial_failed = [i \in Interviews |-> FALSE]
    /\ dial_ok = [i \in Interviews |-> 0]
    /\ unconnected = [i \in Interviews |-> 0]
    /\ misfired = FALSE
    /\ RelayInit

\* ------------------------------------------------- scheduler.py: one tick
\* select(Interview).where(Interview.status == "scheduled"), in id order.
RECURSIVE SelectFrom(_, _)
SelectFrom(i, st) ==
    IF i > NumInterviews THEN <<>>
    ELSE (IF st[i] = "scheduled" THEN <<i>> ELSE <<>>) \o SelectFrom(i + 1, st)

\* The query without its status filter.
SelectScheduled_AnyStatus(st) == [k \in 1..NumInterviews |-> k]

SelectScheduled(st) == SelectFrom(1, st)

\* A run r is [pc, interviews, call_sid, status_read]: where it stands in the
\* loop, the interviews it still has to visit, the result of the dial it
\* waits to act on, and (observation) the statuses its query read.
\* The run moves on to the rest of its list, or returns at the end of it.
Continue(r, rest) ==
    IF rest = <<>> THEN Take(ticks, r)
    ELSE Put(Take(ticks, r),
             [r EXCEPT !.pc = "loop", !.interviews = rest, !.call_sid = None])

\* add_job(check_scheduled_interviews, 'interval', seconds=60) names no
\* max_instances: the scheduler's default lets one run of the job execute at
\* a time.
max_instances == 1

\* A firing of the interval trigger starts a run only below max_instances;
\* otherwise the firing is skipped.
MayStart(running) == running < max_instances

\* A run of the job starts: it reads the scheduled interviews once.
TickStart ==
    /\ MayStart(Size(ticks))
    /\ LET interviews == SelectScheduled(status) IN
        ticks' = IF interviews = <<>> THEN ticks
                 ELSE Put(ticks, [pc |-> "loop", interviews |-> interviews,
                                  call_sid |-> None, status_read |-> status])
    /\ UNCHANGED <<relay_vars, rows, now, question_bank, interview_vars, call_vars, obs_vars>>

\* A firing of the interval trigger while a run executes: it is skipped.
TickMisfire ==
    /\ ~MayStart(Size(ticks))
    /\ misfired' = TRUE
    /\ UNCHANGED <<relay_vars, rows, now, question_bank, interview_vars, ticks,
                   call_vars, dial_failed, dial_ok, unconnected>>

\* `interview.reservation_time <= datetime.utcnow()`
Due(i) == reservation_time[i] <= now

\* The loop body for an interview that is not due yet.
TickSkip(r) ==
    /\ r.pc = "loop"
    /\ ~Due(Head(r.interviews))
    /\ ticks' = Continue(r, Tail(r.interviews))
    /\ UNCHANGED <<relay_vars, rows, now, question_bank, interview_vars, call_vars, obs_vars>>

\* make_outbound_call for a due interview: the provider accepts the request
\* (a call id comes back and the call is placed) or it does not.
TickDial(r) ==
    /\ r.pc = "loop"
    /\ LET i == Head(r.interviews) IN
        /\ Due(i)
        /\ \E ok \in BOOLEAN :
            /\ ok => Unresolved < MaxCalls
            /\ ticks' = Put(Take(ticks, r),
                            [r EXCEPT !.pc = "dialed",
                                      !.call_sid = IF ok THEN "sid" ELSE None])
            /\ placed' = [placed EXCEPT ![i] = IF ok THEN @ + 1 ELSE @]
            /\ dial_ok' = [dial_ok EXCEPT ![i] = IF ok THEN @ + 1 ELSE @]
            /\ dial_failed' = [dial_failed EXCEPT ![i] = @ \/ ~ok]
    /\ UNCHANGED <<relay_vars, rows, now, question_bank, interview_vars, call, callbacks,
                   unconnected, misfired>>

\* What the loop does with the dial's result: the status write of a
\* successful dial, nothing after a failed one.
\* The status write done whatever the dial returned.
StatusAfterDial_Always(call_sid, old) == "calling"

StatusAfterDial(call_sid, old) == IF call_sid # None THEN "calling" ELSE old

TickCommit(r) ==
    /\ r.pc = "dialed"
    /\ LET i == Head(r.interviews) IN
        status' = [status EXCEPT ![i] = StatusAfterDial(r.call_sid, @)]
    /\ ticks' = Continue(r, Tail(r.interviews))
    /\ UNCHANGED <<relay_vars, rows, now, question_bank, current_stage, session_snapshot,
                   last_completed_q_id, reservation_time, resume_count,
                   retry_count, reviews, reverse_qa_logs, stt_tasks, stt_running, qa_running,
                   notifications, call_vars, obs_vars>>

check_scheduled_interviews ==
    \/ TickStart
    \/ \E r \in DOMAIN ticks : TickSkip(r)
    \/ \E r \in DOMAIN ticks : TickDial(r)
    \/ \E r \in DOMAIN ticks : TickCommit(r)

\* --------------------------------------------------------- environment
AdvanceTime ==
    /\ now < MaxTime
    /\ now' = now + 1
    /\ UNCHANGED <<relay_vars, rows, question_bank, interview_vars, ticks, call_vars, obs_vars>>

\* An administrator edits the question bank.
EditBank ==
    /\ \E b \in Banks \ {question_bank} : question_bank' = b
    /\ UNCHANGED <<relay_vars, rows, now, interview_vars, ticks, call_vars, obs_vars>>

\* The provider resolves a placed call: the candidate answers (the line is
\* free) and the provider requests /voice/call ...
Answer(i) ==
    /\ placed[i] > 0
    /\ call[i].pc = "idle"
    /\ placed' = [placed EXCEPT ![i] = @ - 1]
    /\ call' = [call EXCEPT ![i] = Request("call", 0, TRUE, <<>>)]
    /\ UNCHANGED <<relay_vars, rows, now, question_bank, interview_vars, ticks, callbacks, obs_vars>>

\* ... or the call never connects.
NoConnect(i) ==
    /\ placed[i] > 0
    /\ placed' = [placed EXCEPT ![i] = @ - 1]
    /\ \E cs \in NeverConnected :
        callbacks' = [callbacks EXCEPT ![i][cs] = @ + 1]
    /\ UNCHANGED <<relay_vars, rows, now, question_bank, interview_vars, ticks, call, obs_vars>>

\* An answered call ends: the TwiML said hangup, or the line dropped.
CallEnds(i) ==
    /\ call[i].pc # "idle"
    /\ call' = [call EXCEPT ![i] = IdleCall]
    /\ callbacks' = [callbacks EXCEPT ![i]["completed"] = @ + 1]
    /\ UNCHANGED <<relay_vars, rows, now, question_bank, interview_vars, ticks, placed, obs_vars>>

\* The gather of /voice/call got no input: the TwiML redirects to /voice/call.
GatherTimeout(i) ==
    /\ call[i].pc = "gather"
    /\ call' = [call EXCEPT ![i].pc = "call"]
    /\ UNCHANGED <<relay_vars, rows, now, question_bank, interview_vars, ticks, placed, callbacks,
                   obs_vars>>

\* ------------------------------------------------ voice.py: the call flow
\* [{"id": q.id, "text": q.text, ...} for q in questions]
TakeSnapshot(bank) == [k \in 1..Len(bank) |-> Question(bank[k].id, bank[k].text)]

\* The test that takes a snapshot at every /voice/call.
SnapshotMissing_Always(snapshot) == TRUE

\* `not interview.session_snapshot`: unset, or the empty list.
SnapshotMissing(snapshot) == snapshot = Unset \/ Value(snapshot) = <<>>

\* POST /voice/call
start_call(i) ==
    /\ call[i].pc = "call"
    /\ EventLoopFree
    /\ IF i \notin rows
       THEN /\ call' = [call EXCEPT ![i] = Request("hangup", 0, TRUE, <<Hangup>>)]
            /\ UNCHANGED <<session_snapshot, status, current_stage>>
       ELSE /\ IF SnapshotMissing(session_snapshot[i])
               THEN /\ session_snapshot' =
                           [session_snapshot EXCEPT
                               ![i] = Some(TakeSnapshot(question_bank))]
                    /\ status' = [status EXCEPT ![i] = "in_progress"]
                    /\ current_stage' = [current_stage EXCEPT ![i] = "greeting"]
               ELSE UNCHANGED <<session_snapshot, status, current_stage>>
            /\ call' = [call EXCEPT ![i] =
                           Request("gather", 0, TRUE,
                                   <<Say("greeting"), Pause, Gather("time_check"),
                                     Say("not_heard"), Redirect("call")>>)]
    /\ UNCHANGED <<relay_vars, rows, now, question_bank, last_completed_q_id, reservation_time,
                   resume_count, retry_count, reviews, reverse_qa_logs,

                   stt_tasks, stt_running, qa_running, notifications, ticks, placed, callbacks, obs_vars>>

\* A handler raises (`interview` is None, or its snapshot is): nothing is
\* committed, the request is answered 500 and the call ends.
Raise(i) == [call EXCEPT ![i] = Request("hangup", 0, TRUE, <<ServerError>>)]

\* Utterances are sequences of words. `w in input_val` is a substring test:
\* Parts(word) is the set of list entries that occur inside the word (the
\* word itself when it is an entry); no entry spans two words.
positive == {"hai", "yes", "daijoubu", "iiyo", "ok", "aru"}
negative == {"iie", "no", "nai", "dame", "muri"}

Lower(w) == CASE w = "YES" -> "yes" [] w = "NO" -> "no" [] OTHER -> w
LowerAll(u) == [k \in 1..Len(u) |-> Lower(u[k])]
Parts(word) ==
    CASE word = "nothing" -> {"nothing", "no"}
      [] word = "mondainai" -> {"nai"}
      [] OTHER -> {word}
ContainsAny(u, words) == \E k \in 1..Len(u) : Parts(u[k]) \cap words # {}

Utterances == {<<>>, <<"hai">>, <<"iie">>, <<"NO">>, <<"eeto">>, <<"nothing">>,
               <<"hai", "muri">>}
SpeechResults == {Unset} \cup {Some(u) : u \in Utterances}
DigitsValues == {None, "1", "2"}

\* input_val with the digit used only when nothing was spoken.
InputVal_SpeechFirst(SpeechResult, Digits) ==
    IF SpeechResult # Unset /\ Value(SpeechResult) # <<>>
    THEN LowerAll(Value(SpeechResult))
    ELSE IF Digits = "2" THEN <<"no">>
    ELSE IF Digits = "1" THEN <<"yes">>
    ELSE <<>>

\* input_val of time_check
InputVal(SpeechResult, Digits) ==
    IF Digits = "2" THEN <<"no">>
    ELSE IF Digits = "1" THEN <<"yes">>
    ELSE IF SpeechResult = Unset THEN <<>>
    ELSE LowerAll(Value(SpeechResult))

\* The q_index time_check redirects to on the affirmative branch.
FirstQuestionIndex(i) == 0

\* The affirmative branch only for an affirmative answer.
AffirmativeOrDefault_Strict(is_positive) == is_positive

\* `elif is_positive or True`
AffirmativeOrDefault(is_positive) == is_positive \/ TRUE

\* POST /voice/time_check with its form fields
time_check_on(i, SpeechResult, Digits) ==
    /\ call[i].pc = "gather"
    /\ EventLoopFree
    /\ LET input_val == InputVal(SpeechResult, Digits)
           is_positive == ContainsAny(input_val, positive)
           is_negative == ContainsAny(input_val, negative)
       IN IF i \notin rows
          THEN /\ call' = Raise(i)
               /\ UNCHANGED current_stage
          ELSE IF is_negative
          THEN /\ call' = [call EXCEPT ![i] =
                              Request("reschedule_record", 0, TRUE,
                                      <<Say("understood"), Say("ask_reschedule"),
                                        Record("save_reschedule")>>)]
               /\ UNCHANGED current_stage
          ELSE IF AffirmativeOrDefault(is_positive)
          THEN /\ current_stage' = [current_stage EXCEPT ![i] = "main_qa"]
               /\ call' = [call EXCEPT ![i] =
                              Request("question", FirstQuestionIndex(i), TRUE,
                                      <<Say("thanks"), Say("instructions"),
                                        Redirect("question")>>)]
          ELSE /\ call' = [call EXCEPT ![i] = Request("hangup", 0, TRUE, <<>>)]
               /\ UNCHANGED current_stage
    /\ UNCHANGED <<relay_vars, rows, now, question_bank, status, session_snapshot,
                   last_completed_q_id, reservation_time, resume_count,
                   retry_count, reviews, reverse_qa_logs, stt_tasks, stt_running, qa_running,
                   notifications, ticks, placed, callbacks, obs_vars>>

time_check(i) ==
    \E SpeechResult \in SpeechResults, Digits \in DigitsValues :
        time_check_on(i, SpeechResult, Digits)

\* POST /voice/save_reschedule
save_reschedule(i) ==
    /\ call[i].pc = "reschedule_record"
    /\ EventLoopFree
    /\ status' = IF i \in rows
                 THEN [status EXCEPT ![i] = "reschedule_requested"]
                 ELSE status
    /\ call' = [call EXCEPT ![i] =
                   Request("hangup", 0, TRUE, <<Say("will_contact"), Hangup>>)]
    /\ UNCHANGED <<relay_vars, rows, now, question_bank, current_stage, session_snapshot,
                   last_completed_q_id, reservation_time, resume_count,
                   retry_count, reviews, reverse_qa_logs, stt_tasks, stt_running, qa_running,
                   notifications, ticks, placed, callbacks, obs_vars>>

\* The countdown said before a question, by the questions that remain.
Countdown(remaining) ==
    IF remaining > 3 THEN <<>>
    ELSE IF remaining = 1 THEN <<Say("last_question")>>
    ELSE <<Say("remaining")>>

\* `snapshot[q_index]`: the place of the element a list index selects, a
\* negative index counting from the end; outside the list it raises.
Position(snapshot, q_index) ==
    IF q_index >= 0 THEN q_index + 1 ELSE Len(snapshot) + q_index + 1

\* POST /voice/question
ask_question(i) ==
    /\ call[i].pc = "question"
    /\ EventLoopFree
    /\ LET q_index == call[i].q_index
           snapshot == Value(session_snapshot[i])
       IN IF i \notin rows \/ session_snapshot[i] = Unset
          THEN call' = Raise(i)
          ELSE IF q_index >= Len(snapshot)
          THEN call' = [call EXCEPT ![i] =
                           Request("reverse_qa_intro", 0, TRUE,
                                   <<Redirect("reverse_qa_intro")>>)]
          ELSE IF Position(snapshot, q_index) \notin DOMAIN snapshot
          THEN call' = Raise(i)
          ELSE call' = [call EXCEPT ![i] =
                           Request("record", q_index, TRUE,
                                   Countdown(Len(snapshot) - q_index)
                                   \o <<Say(snapshot[Position(snapshot, q_index)].text),
                                        Record("record")>>)]
    /\ UNCHANGED <<relay_vars, rows, now, question_bank, interview_vars, ticks, placed, callbacks,
                   obs_vars>>

\* The review that stores the cursor as question_id instead of the
\* question's id.
Review_ByIndex(question, RecordingUrl) ==
    [question_id |-> question.id - 1, question_text |-> question.text,
     recording_url |-> RecordingUrl, transcript |-> Unset,
     compliance_flag |-> FALSE]

\* InterviewReview(...) as save_recording builds it (its duration is left
\* out); compliance_flag is the column's default.
Review(question, RecordingUrl) ==
    [question_id |-> question.id, question_text |-> question.text,
     recording_url |-> RecordingUrl, transcript |-> Unset,
     compliance_flag |-> FALSE]

\* The q_index of the redirect of save_recording, without its increment.
NextIndex_Same(q_index) == q_index

\* The q_index of the redirect of save_recording.
NextIndex(q_index) == q_index + 1

RecordingUrls == {None, "url"}

\* POST /voice/record with its form field
save_recording_on(i, RecordingUrl) ==
    /\ call[i].pc = "record"
    /\ EventLoopFree
    /\ LET q_index == call[i].q_index
           snapshot == Value(session_snapshot[i])
       IN IF i \in rows /\ 0 <= q_index /\ session_snapshot[i] = Unset
          THEN /\ call' = Raise(i)
               /\ UNCHANGED <<reviews, last_completed_q_id, stt_tasks>>
          ELSE
          /\ IF i \in rows /\ 0 <= q_index /\ q_index < Len(snapshot)
             THEN /\ Len(reviews[i]) < MaxReviews
                  /\ reviews' = [reviews EXCEPT ![i] =
                                    Append(@, Review(snapshot[q_index + 1],
                                                     RecordingUrl))]
                  /\ last_completed_q_id' =
                        [last_completed_q_id EXCEPT ![i] = Some(snapshot[q_index + 1].id)]
                  /\ stt_tasks' =
                        IF RecordingUrl # None
                        THEN stt_tasks \cup
                                {[interview |-> i, review |-> Len(reviews[i]) + 1]}
                        ELSE stt_tasks
             ELSE UNCHANGED <<reviews, last_completed_q_id, stt_tasks>>
          /\ call' = [call EXCEPT ![i] =
                         Request("question", NextIndex(q_index), TRUE,
                                 <<Redirect("question")>>)]
    /\ UNCHANGED <<relay_vars, rows, now, question_bank, status, current_stage, session_snapshot,
                   reservation_time, resume_count, retry_count, reverse_qa_logs,
                   stt_running, qa_running, notifications, ticks, placed,
                   callbacks, obs_vars>>

save_recording(i) ==
    \E RecordingUrl \in RecordingUrls : save_recording_on(i, RecordingUrl)

\* What transcribe_audio_url returns for a recorded answer: the text of a
\* recording, or its message for a failed download or transcription.
AnswerTexts == {<<"shiboudouki">>, <<"kinku">>, <<"(STT failed)">>}

\* The background task of save_recording up to its wait: a thread of the
\* pool opens its own session and reads the review (lines 16-20), whatever
\* the event loop is doing.
process_stt_background_read(i, review_id) ==
    /\ [interview |-> i, review |-> review_id] \in stt_tasks
    /\ stt_tasks' = stt_tasks \ {[interview |-> i, review |-> review_id]}
    /\ stt_running' =
          IF review_id \in DOMAIN reviews[i]
          THEN stt_running \cup {[interview |-> i, review |-> review_id]}
          ELSE stt_running
    /\ UNCHANGED <<relay_vars, rows, now, question_bank, status, current_stage, session_snapshot,
                   last_completed_q_id, reservation_time, resume_count,
                   retry_count, reviews, reverse_qa_logs, qa_running,
                   notifications, ticks, call_vars, obs_vars>>

\* The task after transcribe_audio_url has returned: it back-fills the
\* transcript and commits (lines 21-24). The text is the one of any
\* recording: the tasks share the file temp_audio.wav.
process_stt_background_write(i, review_id) ==
    /\ [interview |-> i, review |-> review_id] \in stt_running
    /\ stt_running' = stt_running \ {[interview |-> i, review |-> review_id]}
    /\ \E text \in AnswerTexts :
        reviews' = [reviews EXCEPT ![i][review_id].transcript = Some(text)]
    /\ UNCHANGED <<relay_vars, rows, now, question_bank, status, current_stage, session_snapshot,
                   last_completed_q_id, reservation_time, resume_count,
                   retry_count, reverse_qa_logs, stt_tasks, qa_running,
                   notifications, ticks, call_vars, obs_vars>>

process_stt_background(i, review_id) ==
    \/ process_stt_background_read(i, review_id)
    \/ process_stt_background_write(i, review_id)

\* The stage reverse_qa_intro leaves, had it written the first one.
StageAtIntro_Greeting(old) == "greeting"

\* `interview.current_stage = "reverse_qa"`
StageAtIntro(old) == "reverse_qa"

\* POST /voice/reverse_qa_intro
reverse_qa_intro(i) ==
    /\ call[i].pc = "reverse_qa_intro"
    /\ EventLoopFree
    /\ IF i \notin rows
       THEN /\ call' = Raise(i)
            /\ UNCHANGED current_stage
       ELSE /\ current_stage' = [current_stage EXCEPT ![i] = StageAtIntro(@)]
            /\ call' = [call EXCEPT ![i] =
                           Request("reverse_qa_listen", 0, TRUE,
                                   <<Say("any_questions"),
                                     Redirect("reverse_qa_listen")>>)]
    /\ UNCHANGED <<relay_vars, rows, now, question_bank, status, session_snapshot,
                   last_completed_q_id, reservation_time, resume_count,
                   retry_count, reviews, reverse_qa_logs, stt_tasks, stt_running, qa_running,
                   notifications, ticks, placed, callbacks, obs_vars>>

\* POST /voice/reverse_qa_listen
reverse_qa_listen(i) ==
    /\ call[i].pc = "reverse_qa_listen"
    /\ EventLoopFree
    /\ call' = [call EXCEPT ![i] =
                   Request("reverse_qa_process", 0, TRUE,
                           (IF call[i].first_time THEN <<>>
                            ELSE <<Say("other_questions")>>)
                           \o <<Record("reverse_qa_process")>>)]
    /\ UNCHANGED <<relay_vars, rows, now, question_bank, interview_vars, ticks, placed, callbacks,
                   obs_vars>>

exit_triggers == {"nai", "nashi", "daijoubu", "ijou", "owari", "no",
                  "nothing", "kekkou"}
Transcripts == {<<>>, <<"nai">>, <<"NO">>, <<"kyuuyo">>, <<"mondainai">>,
                <<"(STT failed)">>}

\* extract_topic(text): the topic the utterance is about.
ExtractTopic(text) == text[1]

\* The entry appended to reverse_qa_logs.
LogEntry(text, topic, RecordingUrl) ==
    [question |-> text, topic |-> topic, recording |-> RecordingUrl,
     timestamp |-> now]

\* The exit test on the text as transcribed, not lowered.
IsExit_CaseSensitive(text) == ContainsAny(text, exit_triggers)

\* `any(t in text.lower() for t in exit_triggers)`
IsExit(text) == ContainsAny(LowerAll(text), exit_triggers)

\* What the handler holds while it waits: the form field, whether
\* session.get found the row, and the row's logs as loaded.
Waiting(i, RecordingUrl) ==
    [recording |-> RecordingUrl, found |-> i \in rows,
     logs |-> reverse_qa_logs[i]]

\* POST /voice/reverse_qa_process with its form field, up to the wait: the
\* handler reads the row (line 300) and, with a recording, blocks in
\* transcribe_audio_url (line 330); without one it answers at once.
reverse_qa_process_on(i, RecordingUrl) ==
    /\ call[i].pc = "reverse_qa_process"
    /\ EventLoopFree
    /\ IF RecordingUrl # None
       THEN /\ qa_running' = [qa_running EXCEPT ![i] = Some(Waiting(i, RecordingUrl))]
            /\ call' = [call EXCEPT ![i].pc = "reverse_qa_wait"]
       ELSE /\ call' = IF i \notin rows THEN Raise(i)
                       ELSE [call EXCEPT ![i] =
                                Request("reverse_qa_listen", 0, FALSE,
                                        <<Redirect("reverse_qa_listen")>>)]
            /\ UNCHANGED qa_running
    /\ UNCHANGED <<relay_vars, rows, now, question_bank, status, current_stage, session_snapshot,
                   last_completed_q_id, reservation_time, resume_count,
                   retry_count, reviews, reverse_qa_logs, stt_tasks,
                   stt_running, notifications, ticks, placed, callbacks,
                   obs_vars>>

\* The answer of the waiting handler reaches the call if the caller is still
\* on the line; after a hangup it is lost.
Answered(i, request) ==
    IF call[i].pc = "reverse_qa_wait"
    THEN [call EXCEPT ![i] = request]
    ELSE call

\* The handler after transcribe_audio_url has returned text (lines 331-356):
\* the exit test, extract_topic, the log entry and its commit, the answer.
reverse_qa_process_resume(i, text) ==
    /\ qa_running[i] # Unset
    /\ qa_running' = [qa_running EXCEPT ![i] = Unset]
    /\ LET handler == Value(qa_running[i])
           RecordingUrl == handler.recording
       IN IF ~handler.found
          THEN /\ call' = IF call[i].pc = "reverse_qa_wait" THEN Raise(i) ELSE call
               /\ UNCHANGED reverse_qa_logs
          ELSE IF text = <<>>
          THEN /\ call' = Answered(i, Request("reverse_qa_listen", 0, FALSE,
                                              <<Say("goshitsumon"),
                                                Redirect("reverse_qa_listen")>>))
               /\ UNCHANGED reverse_qa_logs
          ELSE IF IsExit(text)
          THEN /\ call' = Answered(i, Request("end", 0, TRUE, <<Redirect("end")>>))
               /\ UNCHANGED reverse_qa_logs
          ELSE /\ reverse_qa_logs' =
                     [reverse_qa_logs EXCEPT ![i] =
                         Append(handler.logs,
                                LogEntry(text, ExtractTopic(text), RecordingUrl))]
               /\ call' = Answered(i, Request("reverse_qa_listen", 0, FALSE,
                                              <<Say(ExtractTopic(text)),
                                                Redirect("reverse_qa_listen")>>))
    /\ UNCHANGED <<relay_vars, rows, now, question_bank, status, current_stage, session_snapshot,
                   last_completed_q_id, reservation_time, resume_count,
                   retry_count, reviews, stt_tasks, stt_running, notifications,
                   ticks, placed, callbacks, obs_vars>>

\* The recordings a caller leaves: a further question only while fewer than
\* MaxLogs are logged; past that the caller is silent or says an exit word.
Asks(i, text) ==
    /\ qa_running[i] # Unset
    /\ \/ Len(Value(qa_running[i]).logs) < MaxLogs
       \/ text = <<>>
       \/ IsExit(text)

reverse_qa_process(i) ==
    \/ \E RecordingUrl \in RecordingUrls : reverse_qa_process_on(i, RecordingUrl)
    \/ \E text \in Transcripts :
          Asks(i, text) /\ reverse_qa_process_resume(i, text)

\* The stage end_call leaves, had it not written one.
StageAtEnd_Unchanged(old) == old

\* `interview.current_stage = "ending"`
StageAtEnd(old) == "ending"

\* POST /voice/end
end_call(i) ==
    /\ call[i].pc = "end"
    /\ EventLoopFree
    /\ IF i \notin rows
       THEN /\ call' = Raise(i)
            /\ UNCHANGED <<status, current_stage>>
       ELSE /\ status' = [status EXCEPT ![i] = "completed"]
            /\ current_stage' = [current_stage EXCEPT ![i] = StageAtEnd(@)]
            /\ call' = [call EXCEPT ![i] =
                           Request("hangup", 0, TRUE,
                                   <<Say("closing"), Say("result_notice"),
                                     Say("questions_notice"), Say("goodbye"),
                                     Hangup>>)]
    /\ UNCHANGED <<relay_vars, rows, now, question_bank, session_snapshot, last_completed_q_id,
                   reservation_time, resume_count, retry_count, reviews,
                   reverse_qa_logs,
                   stt_tasks, stt_running, qa_running, notifications, ticks, placed,
                   callbacks, obs_vars>>

\* POST /voice/status: the handler logs the status and changes nothing.
call_status(i, CallStatus) ==
    /\ callbacks[i][CallStatus] > 0
    /\ EventLoopFree
    /\ callbacks' = [callbacks EXCEPT ![i][CallStatus] = @ - 1]
    /\ unconnected' = [unconnected EXCEPT ![i] =
                          IF CallStatus \in NeverConnected THEN @ + 1 ELSE 0]
    /\ UNCHANGED <<relay_vars, rows, now, question_bank, interview_vars, ticks, placed, call,
                   dial_failed, dial_ok, misfired>>

Next ==
    \/ check_scheduled_interviews
    \/ TickMisfire
    \/ AdvanceTime
    \/ EditBank
    \/ \E i \in Interviews : Answer(i)
    \/ \E i \in Interviews : NoConnect(i)
    \/ \E i \in Interviews : CallEnds(i)
    \/ \E i \in Interviews : GatherTimeout(i)
    \/ \E i \in Interviews : start_call(i)
    \/ \E i \in Interviews : time_check(i)
    \/ \E i \in Interviews : save_reschedule(i)
    \/ \E i \in Interviews : ask_question(i)
    \/ \E i \in Interviews : save_recording(i)
    \/ \E i \in Interviews, k \in 1..MaxReviews : process_stt_background(i, k)
    \/ \E i \in Interviews : reverse_qa_intro(i)
    \/ \E i \in Interviews : reverse_qa_listen(i)
    \/ \E i \in Interviews : reverse_qa_process(i)
    \/ \E i \in Interviews : end_call(i)
    \/ \E i \in Interviews, cs \in CallStatuses : call_status(i, cs)

Spec == Init /\ [][Next]_vars

\* ------------------------------------------- the call flow, by request
\* The endpoints take interview_id, q_index and first_time from the query
\* string: a request may name an interview that has no row, arrive before
\* the snapshot exists, or carry any cursor.
Endpoints == {"call", "gather", "reschedule_record", "question", "record",
              "reverse_qa_intro", "reverse_qa_listen", "reverse_qa_process",
              "end"}
QIndexes == (-1)..MaxQ

\* The store as a call may have left it when it dropped (the snapshot taken,
\* the first questions answered, the scheduler's commit of calling before or
\* after the status write of /voice/call), and one request.
InitRequests ==
    /\ now = 0
    /\ rows \in SUBSET Interviews
    /\ question_bank \in Banks
    /\ session_snapshot \in
          [Interviews -> {Unset} \cup {Some(TakeSnapshot(b)) : b \in Banks}]
    /\ \A i \in Interviews : i \notin rows => session_snapshot[i] = Unset
    /\ status \in [Interviews -> {"calling", "in_progress"}]
    /\ \A i \in Interviews : session_snapshot[i] = Unset => status[i] = "calling"
    /\ \E answered \in [Interviews -> 0..MaxQ] :
        /\ \A i \in Interviews :
              answered[i] <= (IF session_snapshot[i] = Unset THEN 0
                              ELSE Len(Value(session_snapshot[i])))
        /\ reviews = [i \in Interviews |->
                         [k \in 1..answered[i] |->
                             Review(Value(session_snapshot[i])[k], "url")]]
        /\ last_completed_q_id =
              [i \in Interviews |->
                  IF answered[i] = 0 THEN Unset
                  ELSE Some(Value(session_snapshot[i])[answered[i]].id)]
        /\ current_stage = [i \in Interviews |->
                               IF session_snapshot[i] = Unset THEN None
                               ELSE IF answered[i] = 0 THEN "greeting"
                               ELSE "main_qa"]
        /\ stt_tasks = UNION {{[interview |-> i, review |-> k] :
                                  k \in 1..answered[i]} : i \in Interviews}
    /\ stt_running = {}
    /\ qa_running = [i \in Interviews |-> Unset]
    /\ reservation_time = [i \in Interviews |-> 0]
    /\ resume_count = [i \in Interviews |-> 0]
    /\ retry_count = [i \in Interviews |-> 0]
    /\ reverse_qa_logs = [i \in Interviews |-> <<>>]
    /\ notifications = [i \in Interviews |-> [sms |-> 0, email |-> 0]]
    /\ ticks = NoRuns
    /\ placed = [i \in Interviews |-> 0]
    /\ call \in {[i \in Interviews |-> Request(pc, q_index, first_time, <<>>)] :
                    pc \in Endpoints, q_index \in QIndexes,
                    first_time \in BOOLEAN}
    /\ callbacks = [i \in Interviews |-> [cs \in CallStatuses |-> 0]]
    /\ dial_failed = [i \in Interviews |-> FALSE]
    /\ dial_ok = [i \in Interviews |-> 1]
    /\ unconnected = [i \in Interviews |-> 0]
    /\ misfired = FALSE
    /\ RelayInit

NextRequests ==
    \/ \E i \in Interviews : start_call(i)
    \/ \E i \in Interviews : time_check(i)
    \/ \E i \in Interviews : save_reschedule(i)
    \/ \E i \in Interviews : ask_question(i)
    \/ \E i \in Interviews : save_recording(i)
    \/ \E i \in Interviews, k \in 1..MaxReviews : process_stt_background(i, k)
    \/ \E i \in Interviews : reverse_qa_intro(i)
    \/ \E i \in Interviews : reverse_qa_listen(i)
    \/ \E i \in Interviews : reverse_qa_process(i)
    \/ \E i \in Interviews : end_call(i)

SpecRequests == InitRequests /\ [][NextRequests]_vars

\* ------------------------------------------- main.py: voice_stream relay
VOICE_THRESHOLD == 600
SILENCE_DURATION_MS == 600
CONSECUTIVE_VOICE_REQUIRED == 2

\* Media payloads, and audioop.rms of the decoded payload.
Payloads == {"quiet", "edge", "loud"}
Rms(payload) ==
    CASE payload = "quiet" -> 300 [] payload = "edge" -> 600 [] OTHER -> 900

\* What a send to the AI session starts there: a response.create is a
\* response requested.
Requested(msgs) ==
    Cardinality({k \in 1..Len(msgs) : msgs[k].type = "response.create"})
SendToOpenAI(msgs) ==
    /\ to_openai' = to_openai \o msgs
    /\ ai_response' = [ai_response EXCEPT !.requested = @ + Requested(msgs)]

\* `silence_duration > SILENCE_DURATION_MS`
SilenceLongEnough(silence_duration) == silence_duration > SILENCE_DURATION_MS

\* What the end of speech sends: commit and respond, unless the AI speaks.
CommitAndRespond(ai_speaking) ==
    IF ~ai_speaking
    THEN <<Msg("input_audio_buffer.commit", ""), Msg("response.create", "")>>
    ELSE <<>>

\* The append that forwards an inbound frame only while the AI is silent.
ForwardAppend_UnlessAISpeaking(payload, ai_speaking) ==
    IF ai_speaking THEN <<>>
    ELSE <<Msg("input_audio_buffer.append", payload)>>

\* The append that forwards an inbound frame (lines 166-169).
ForwardAppend(payload, ai_speaking) ==
    <<Msg("input_audio_buffer.append", payload)>>

\* The debounce with one frame above the threshold.
SpeechStarts_AnyVoice(count) == count >= 1

\* `consecutive_voice_count >= CONSECUTIVE_VOICE_REQUIRED`
SpeechStarts(count) == count >= CONSECUTIVE_VOICE_REQUIRED

\* receive_from_twilio, event start
TwilioStart ==
    /\ twilio_loop = "running"
    /\ websocket = "open"
    /\ stream_sid = None
    /\ stream_sid' = "MZ1"
    /\ UNCHANGED <<app_vars, time_ms, vad_vars, ai_is_speaking,
                   latest_media_timestamp, twilio_loop, openai_loop, websocket,
                   openai_ws, to_openai, to_twilio, from_openai, ai_response,
                   emitted, buffered_for_later,
                   audio_payload, call_id>>

\* ai_is_speaking after a frame, cleared when the caller's segment ends.
AISpeakingAfterFrame_ClearedAtSegmentEnd(ai_speaking, segment_ends) ==
    IF segment_ends THEN FALSE ELSE ai_speaking

\* ai_is_speaking after a frame: receive_from_twilio reads it (line 199)
\* and has no assignment to it.
AISpeakingAfterFrame(ai_speaking, segment_ends) == ai_speaking

\* receive_from_twilio, event media of the inbound track, up to its first
\* await: the frame is sent to the AI session's input buffer (lines 159-169).
TwilioMedia(payload) ==
    /\ twilio_loop = "running"
    /\ websocket = "open"
    /\ openai_ws = "open"
    /\ stream_sid # None
    /\ Len(SelectSeq(to_openai, LAMBDA m : m.type = "input_audio_buffer.append"))
          < MaxFrames
    /\ audio_payload' = payload
    /\ SendToOpenAI(ForwardAppend(payload, ai_is_speaking))
    /\ twilio_loop' = "vad"
    /\ UNCHANGED <<app_vars, time_ms, stream_sid, vad_vars, ai_is_speaking,
                   latest_media_timestamp, openai_loop, websocket, openai_ws,
                   to_twilio, from_openai, emitted, buffered_for_later,
                   call_id>>

\* receive_from_twilio, event media after the append: the VAD of the frame
\* up to its next await, the send of the commit (lines 172-200). A send that
\* raises on the lost AI connection is swallowed by `except Exception: pass`
\* (lines 205-206) and the loop goes on with the next frame.
TwilioVad ==
    /\ twilio_loop = "vad"
    /\ audio_payload' = None
    /\ LET rms == Rms(audio_payload) IN
        IF rms > VOICE_THRESHOLD
        THEN /\ consecutive_voice_count' = consecutive_voice_count + 1
             /\ IF SpeechStarts(consecutive_voice_count + 1)
                THEN /\ is_speaking' = TRUE
                     /\ last_speech_time' = time_ms
                ELSE UNCHANGED <<is_speaking, last_speech_time>>
             /\ ai_is_speaking' = AISpeakingAfterFrame(ai_is_speaking, FALSE)
             /\ twilio_loop' = "running"
             /\ UNCHANGED <<to_openai, ai_response, buffered_for_later>>
        ELSE /\ consecutive_voice_count' = 0
             /\ UNCHANGED last_speech_time
             /\ IF is_speaking
                   /\ SilenceLongEnough(time_ms - last_speech_time)
                THEN /\ is_speaking' = FALSE
                     /\ buffered_for_later' = ai_is_speaking
                     /\ ai_is_speaking' = AISpeakingAfterFrame(ai_is_speaking, TRUE)
                     /\ LET msgs == CommitAndRespond(ai_is_speaking) IN
                         IF msgs # <<>> /\ openai_ws = "open"
                         THEN /\ SendToOpenAI(<<msgs[1]>>)
                              /\ twilio_loop' = "committed"
                         ELSE /\ twilio_loop' = "running"
                              /\ UNCHANGED <<to_openai, ai_response>>
                ELSE /\ ai_is_speaking' = AISpeakingAfterFrame(ai_is_speaking, FALSE)
                     /\ twilio_loop' = "running"
                     /\ UNCHANGED <<is_speaking, buffered_for_later, to_openai,
                                    ai_response>>
    /\ UNCHANGED <<app_vars, time_ms, stream_sid, latest_media_timestamp,
                   openai_loop, websocket, openai_ws, to_twilio, from_openai,
                   emitted, call_id>>

\* receive_from_twilio, event media after the commit: response.create is
\* sent (line 201); a send that raises on the lost AI connection is
\* swallowed (lines 205-206).
TwilioRespond ==
    /\ twilio_loop = "committed"
    /\ IF openai_ws = "open"
       THEN SendToOpenAI(<<CommitAndRespond(FALSE)[2]>>)
       ELSE UNCHANGED <<to_openai, ai_response>>
    /\ twilio_loop' = "running"
    /\ UNCHANGED <<app_vars, time_ms, stream_sid, vad_vars, ai_is_speaking,
                   latest_media_timestamp, openai_loop, websocket, openai_ws,
                   to_twilio, from_openai, emitted, buffered_for_later,
                   audio_payload, call_id>>

\* receive_from_twilio, event media when the AI connection is gone: the send
\* of line 166 raises and the loop ends.
TwilioSendFails ==
    /\ twilio_loop = "running"
    /\ websocket = "open"
    /\ openai_ws # "open"
    /\ stream_sid # None
    /\ twilio_loop' = "done"
    /\ UNCHANGED <<app_vars, time_ms, stream_sid, vad_vars, ai_is_speaking,
                   latest_media_timestamp, openai_loop, websocket, openai_ws,
                   to_openai, to_twilio, from_openai, ai_response, emitted,
                   buffered_for_later,
                   audio_payload, call_id>>

\* receive_from_twilio, event stop: the loop breaks
TwilioStop ==
    /\ twilio_loop = "running"
    /\ websocket = "open"
    /\ stream_sid # None
    /\ twilio_loop' = "done"
    /\ UNCHANGED <<app_vars, time_ms, stream_sid, vad_vars, ai_is_speaking,
                   latest_media_timestamp, openai_loop, websocket, openai_ws,
                   to_openai, to_twilio, from_openai, ai_response, emitted,
                   buffered_for_later,
                   audio_payload, call_id>>

\* receive_from_twilio: receive_text raises on the closed or lost websocket
TwilioClosed ==
    /\ twilio_loop = "running"
    /\ websocket # "open"
    /\ twilio_loop' = "done"
    /\ UNCHANGED <<app_vars, time_ms, stream_sid, vad_vars, ai_is_speaking,
                   latest_media_timestamp, openai_loop, websocket, openai_ws,
                   to_openai, to_twilio, from_openai, ai_response, emitted,
                   buffered_for_later,
                   audio_payload, call_id>>

\* The media event that forwards a delta to the telephony leg.
Media(sid, audio_delta) ==
    [type |-> "media", arg |-> audio_delta, streamSid |-> sid]

\* The function result sent after the response.create.
FunctionResult_ResponseFirst(id) ==
    <<Msg("response.create", ""), Msg("conversation.item.create", id)>>

\* What get_current_date sends: the function_call_output of the call
\* (line 261), then response.create (line 270).
FunctionResult(id) ==
    <<Msg("conversation.item.create", id), Msg("response.create", "")>>

\* receive_from_openai: one event of the AI session; of get_current_date,
\* the branch up to its second await (lines 248-268).
ReceiveOpenAI ==
    /\ openai_loop = "running"
    /\ from_openai # <<>>
    /\ from_openai' = Tail(from_openai)
    /\ LET msg == Head(from_openai) IN
        CASE msg.type = "response.audio.delta" ->
                /\ ai_is_speaking' = TRUE
                /\ latest_media_timestamp' = time_ms
                /\ IF msg.arg # "" /\ stream_sid # None
                   THEN IF websocket = "open"
                        THEN /\ to_twilio' = Append(to_twilio, Media(stream_sid, msg.arg))
                             /\ UNCHANGED openai_loop
                        ELSE /\ openai_loop' = "done"
                             /\ UNCHANGED to_twilio
                   ELSE UNCHANGED <<to_twilio, openai_loop>>
                /\ UNCHANGED <<websocket, to_openai, ai_response, call_id>>
          [] msg.type = "response.audio.done" ->
                /\ ai_is_speaking' = FALSE
                /\ UNCHANGED <<latest_media_timestamp, to_twilio, openai_loop,
                               websocket, to_openai, ai_response, call_id>>
          [] msg.type = "response.function_call_arguments.done"
             /\ msg.arg = "get_current_date" ->
                /\ IF openai_ws = "open"
                   THEN /\ SendToOpenAI(<<FunctionResult(msg.call_id)[1]>>)
                        /\ openai_loop' = "function_result"
                        /\ call_id' = msg.call_id
                   ELSE /\ openai_loop' = "done"
                        /\ UNCHANGED <<to_openai, ai_response, call_id>>
                /\ UNCHANGED <<ai_is_speaking, latest_media_timestamp, to_twilio,
                               websocket>>
          [] msg.type = "response.function_call_arguments.done"
             /\ msg.arg = "end_call" ->
                /\ openai_loop' = "closing"
                /\ UNCHANGED <<ai_is_speaking, latest_media_timestamp, to_twilio,
                               websocket, to_openai, ai_response, call_id>>
          [] OTHER ->
                UNCHANGED <<ai_is_speaking, latest_media_timestamp, to_twilio,
                            openai_loop, websocket, to_openai, ai_response,
                            call_id>>
    /\ UNCHANGED <<app_vars, time_ms, stream_sid, vad_vars, twilio_loop,
                   openai_ws, emitted, buffered_for_later, audio_payload>>

\* receive_from_openai, get_current_date after the function result:
\* response.create is sent (line 270); on the lost AI connection the send
\* raises and the loop ends.
FunctionRespond ==
    /\ openai_loop = "function_result"
    /\ call_id' = None
    /\ IF openai_ws = "open"
       THEN /\ SendToOpenAI(<<FunctionResult(call_id)[2]>>)
            /\ openai_loop' = "running"
       ELSE /\ openai_loop' = "done"
            /\ UNCHANGED <<to_openai, ai_response>>
    /\ UNCHANGED <<app_vars, time_ms, stream_sid, vad_vars, ai_is_speaking,
                   latest_media_timestamp, twilio_loop, websocket, openai_ws,
                   to_twilio, from_openai, emitted, buffered_for_later,
                   audio_payload>>

\* receive_from_openai, end_call after asyncio.sleep(2): the telephony
\* websocket is closed and the loop breaks (lines 275-277).
EndCallClose ==
    /\ openai_loop = "closing"
    /\ websocket' = IF websocket = "open" THEN "closed" ELSE websocket
    /\ openai_loop' = "done"
    /\ UNCHANGED <<app_vars, time_ms, stream_sid, vad_vars, ai_is_speaking,
                   latest_media_timestamp, twilio_loop, openai_ws, to_openai,
                   to_twilio, from_openai, ai_response, emitted,
                   buffered_for_later,
                   audio_payload, call_id>>

\* receive_from_openai: recv raises once the lost AI connection has no
\* event left to deliver
OpenAIClosed ==
    /\ openai_loop = "running"
    /\ openai_ws # "open"
    /\ from_openai = <<>>
    /\ openai_loop' = "done"
    /\ UNCHANGED <<app_vars, time_ms, stream_sid, vad_vars, ai_is_speaking,
                   latest_media_timestamp, twilio_loop, websocket, openai_ws,
                   to_openai, to_twilio, from_openai, ai_response, emitted,
                   buffered_for_later,
                   audio_payload, call_id>>

\* asyncio.gather has returned: the `async with` block is left, which closes
\* the AI session (line 287).
ExitSession ==
    /\ twilio_loop = "done"
    /\ openai_loop = "done"
    /\ openai_ws = "open"
    /\ openai_ws' = "closed"
    /\ UNCHANGED <<app_vars, time_ms, stream_sid, vad_vars, ai_is_speaking,
                   latest_media_timestamp, twilio_loop, openai_loop, websocket,
                   to_openai, to_twilio, from_openai, ai_response, emitted,
                   buffered_for_later,
                   audio_payload, call_id>>

\* finally: websocket.close() (lines 291-295)
CloseTelephony ==
    /\ twilio_loop = "done"
    /\ openai_loop = "done"
    /\ openai_ws # "open"
    /\ websocket = "open"
    /\ websocket' = "closed"
    /\ UNCHANGED <<app_vars, time_ms, stream_sid, vad_vars, ai_is_speaking,
                   latest_media_timestamp, twilio_loop, openai_loop, openai_ws,
                   to_openai, to_twilio, from_openai, ai_response, emitted,
                   buffered_for_later,
                   audio_payload, call_id>>

\* voice_stream once both loops are done.
Finish ==
    \/ ExitSession
    \/ CloseTelephony

\* The telephony connection is lost.
TwilioLost ==
    /\ websocket = "open"
    /\ websocket' = "lost"
    /\ UNCHANGED <<app_vars, time_ms, stream_sid, vad_vars, ai_is_speaking,
                   latest_media_timestamp, twilio_loop, openai_loop, openai_ws,
                   to_openai, to_twilio, from_openai, ai_response, emitted,
                   buffered_for_later,
                   audio_payload, call_id>>

\* The AI connection is lost.
OpenAILost ==
    /\ openai_ws = "open"
    /\ openai_ws' = "lost"
    /\ UNCHANGED <<app_vars, time_ms, stream_sid, vad_vars, ai_is_speaking,
                   latest_media_timestamp, twilio_loop, openai_loop, websocket,
                   to_openai, to_twilio, from_openai, ai_response, emitted,
                   buffered_for_later,
                   audio_payload, call_id>>

\* The AI session emits an event.
Emit(msg) ==
    /\ openai_ws = "open"
    /\ emitted < MaxEvents
    /\ emitted' = emitted + 1
    /\ from_openai' = Append(from_openai, msg)
    /\ UNCHANGED <<app_vars, time_ms, stream_sid, vad_vars, ai_is_speaking,
                   latest_media_timestamp, twilio_loop, openai_loop, websocket,
                   openai_ws, to_openai, to_twilio, buffered_for_later,
                   audio_payload, call_id>>

\* Audio of the response being generated.
AIAudioDelta ==
    /\ ai_response.requested > 0
    /\ Emit(Msg("response.audio.delta", "audio"))
    /\ ai_response' = [ai_response EXCEPT !.audio = TRUE]

\* The audio of the response being generated is complete.
AIAudioDone ==
    /\ ai_response.requested > 0
    /\ ai_response.audio
    /\ Emit(Msg("response.audio.done", ""))
    /\ ai_response' = [requested |-> ai_response.requested - 1, audio |-> FALSE]

\* The response being generated is a function call.
CallIds == {"call_1", "call_2"}
FunctionCallDone(name, id) ==
    [type |-> "response.function_call_arguments.done", arg |-> name,
     call_id |-> id]
AIFunctionCall(name, id) ==
    /\ ai_response.requested > 0
    /\ ~ai_response.audio
    /\ Emit(FunctionCallDone(name, id))
    /\ ai_response' = [ai_response EXCEPT !.requested = @ - 1]

\* Events the relay has no branch for, and error.
AISignal(type) ==
    /\ Emit(Msg(type, ""))
    /\ UNCHANGED ai_response

AdvanceClock ==
    /\ time_ms < MaxClock
    /\ time_ms' = time_ms + TimeStep
    /\ UNCHANGED <<app_vars, stream_sid, vad_vars, ai_is_speaking,
                   latest_media_timestamp, twilio_loop, openai_loop, websocket,
                   openai_ws, to_openai, to_twilio, from_openai, ai_response,
                   emitted, buffered_for_later,
                   audio_payload, call_id>>

receive_from_twilio ==
    \/ TwilioStart
    \/ \E payload \in Payloads : TwilioMedia(payload)
    \/ TwilioVad
    \/ TwilioRespond
    \/ TwilioSendFails
    \/ TwilioStop
    \/ TwilioClosed

receive_from_openai ==
    \/ ReceiveOpenAI
    \/ FunctionRespond
    \/ EndCallClose
    \/ OpenAIClosed

NextRelay ==
    \/ receive_from_twilio
    \/ receive_from_openai
    \/ Finish
    \/ TwilioLost
    \/ OpenAILost
    \/ AIAudioDelta
    \/ AIAudioDone
    \/ \E name \in {"get_current_date", "end_call"}, id \in CallIds :
          AIFunctionCall(name, id)
    \/ \E type \in {"input_audio_buffer.speech_started", "error"} : AISignal(type)
    \/ AdvanceClock

\* The relay of one call, with the interview store left alone.
InitRelay ==
    /\ Init
    /\ question_bank = <<>>
    /\ \A i \in Interviews : reservation_time[i] = 0

SpecRelay == InitRelay /\ [][NextRelay]_vars

\* The relay's own steps: each loop handles what has already reached it, and
\* voice_stream finishes once both loops are done. Frames and events still
\* to come from the two peers are not among them.
RelaySteps ==
    \/ TwilioVad
    \/ TwilioRespond
    \/ TwilioClosed
    \/ receive_from_openai
    \/ Finish

SpecRelayLive == SpecRelay /\ WF_vars(RelaySteps)

\* ================================================================ claims
\* Steps of a run, told from the bag of runs.
Leaves(r) == Count(ticks', r) < Count(ticks, r)
Started(r) == Size(ticks') > Size(ticks) /\ Count(ticks', r) > Count(ticks, r)
InList(i, interviews) == \E k \in 1..Len(interviews) : interviews[k] = i
RunPending(i) == \E r \in DOMAIN ticks : InList(i, r.interviews)

\* C1: the read of status = scheduled and the flip to calling act as one
\* compare-and-set per interview: a run that has dialled flips the interview
\* to calling only while its status still is the scheduled the run read, and
\* an interview is dialled successfully at most once while it is scheduled.
C1_CompareAndSetDial ==
    /\ [](\A i \in Interviews : dial_ok[i] <= 1)
    /\ [][
          \A r \in DOMAIN ticks :
              (TickCommit(r) /\ r.call_sid # None)
              => LET i == Head(r.interviews) IN
                 /\ r.status_read[i] = "scheduled"
                 /\ status[i] = r.status_read[i]
       ]_vars

\* C2: a call is placed for an interview only by a run that read it with
\* status = scheduled, and only when reservation_time <= now; the write
\* after a successful dial sets status = calling; a run that starts later
\* lists no interview whose status is then other than scheduled (calling in
\* particular), so it dials none of them.
C2_DialOnlyScheduledAndDue ==
    [][
        /\ \A i \in Interviews :
            dial_ok'[i] > dial_ok[i] =>
                /\ Due(i)
                /\ \E r \in DOMAIN ticks :
                    /\ Leaves(r)
                    /\ r.pc = "loop"
                    /\ Head(r.interviews) = i
                    /\ r.status_read[i] = "scheduled"
        /\ \A r \in DOMAIN ticks :
            (Leaves(r) /\ r.pc = "dialed" /\ r.call_sid # None) =>
                status'[Head(r.interviews)] = "calling"
        /\ \A r \in DOMAIN ticks' :
            Started(r) =>
                /\ r.status_read = status
                /\ \A i \in Interviews :
                    InList(i, r.interviews) => status[i] = "scheduled"
      ]_vars

\* C2 witness: an interview was dialled once, by a run that has returned, and
\* is calling.
W_C2_DialedOnceAndCalling ==
    \E i \in Interviews :
        status[i] = "calling" /\ dial_ok[i] = 1 /\ ticks = NoRuns

\* C3: once the calls of a dialled interview have ended and their status
\* callbacks are handled, the interview is completed, failed,
\* reschedule_requested or back to scheduled, never left calling or
\* in_progress.
C3_DialedInterviewSettles ==
    \A i \in Interviews :
        (dial_ok[i] > 0 /\ UnresolvedOf(i) = 0 /\ ~RunPending(i)) =>
            status[i] \in {"completed", "failed", "reschedule_requested",
                           "scheduled"}

\* Some, but not all, snapshot questions of the interview are answered.
LastQuestionId(i) ==
    LET snapshot == Value(session_snapshot[i]) IN snapshot[Len(snapshot)].id
AllAnswered(i) ==
    /\ last_completed_q_id[i] # Unset
    /\ session_snapshot[i] # Unset
    /\ Value(session_snapshot[i]) # <<>>
    /\ Value(last_completed_q_id[i]) = LastQuestionId(i)
PartlyAnswered(i) ==
    /\ last_completed_q_id[i] # Unset
    /\ ~AllAnswered(i)

\* C4: the status callback of a connected call that ended with some but not
\* all questions answered increments resume_count, sets status = scheduled
\* and reservation_time = now + 1 minute while resume_count < 3, and sets
\* status = failed otherwise.
C4_ResumeAfterPartialCall ==
    [][\A i \in Interviews :
        (call_status(i, "completed") /\ PartlyAnswered(i)) =>
            IF resume_count[i] < 3
            THEN /\ resume_count'[i] = resume_count[i] + 1
                 /\ status'[i] = "scheduled"
                 /\ reservation_time'[i] = now + 1
            ELSE status'[i] = "failed"
      ]_vars

\* C5: the status callback of a call that never connected increments
\* retry_count and reschedules the interview while retry_count < 3, and
\* otherwise sets status = failed and sends exactly one SMS and one e-mail.
C5_RetryAfterNoConnect ==
    [][\A i \in Interviews, cs \in NeverConnected :
        call_status(i, cs) =>
            IF retry_count[i] < 3
            THEN /\ retry_count'[i] = retry_count[i] + 1
                 /\ status'[i] = "scheduled"
                 /\ reservation_time'[i] >= now
            ELSE /\ status'[i] = "failed"
                 /\ notifications'[i] =
                        [sms |-> notifications[i].sms + 1,
                         email |-> notifications[i].email + 1]
      ]_vars

\* C6: the status callback of a call in which the last answered question is
\* the final snapshot question leaves the interview completed.
C6_CompletedAfterLastQuestion ==
    [][\A i \in Interviews :
        (call_status(i, "completed") /\ AllAnswered(i)) =>
            status'[i] = "completed"
      ]_vars

\* C7: resume_count and retry_count never exceed 3; after 3 consecutive
\* calls that never connected the status is failed; a failed interview gets
\* no new reservation time and never goes back to scheduled or calling.
C7_RetryBounds ==
    /\ [](\A i \in Interviews :
            /\ resume_count[i] <= 3
            /\ retry_count[i] <= 3
            /\ unconnected[i] >= 3 => status[i] = "failed")
    /\ [][\A i \in Interviews :
            status[i] = "failed" =>
                /\ reservation_time'[i] = reservation_time[i]
                /\ status'[i] \notin {"scheduled", "calling"}
         ]_vars

\* C8: a failed dial request changes neither the interview's status (it
\* stays scheduled when no dial of it has succeeded) nor its
\* reservation_time nor a retry counter, at the dial and at the run's step
\* after it; and a run that starts lists every interview that is scheduled,
\* so the next run dials it again.
C8_FailedDialLeavesScheduled ==
    [][
        /\ \A r \in DOMAIN ticks :
            (Leaves(r) /\
                (r.pc = "loop" \/ (r.pc = "dialed" /\ r.call_sid = None))) =>
                LET i == Head(r.interviews) IN
                    /\ status'[i] = status[i]
                    /\ dial_ok'[i] = 0 => status'[i] = "scheduled"
                    /\ reservation_time'[i] = reservation_time[i]
                    /\ retry_count'[i] = retry_count[i]
                    /\ resume_count'[i] = resume_count[i]
        /\ \A r \in DOMAIN ticks' :
            Started(r) =>
                \A i \in Interviews :
                    status[i] = "scheduled" => InList(i, r.interviews)
      ]_vars

\* C8 witness: a dial of the interview has failed, none has succeeded, it is
\* still scheduled, and the only run in flight is about to dial it again.
W_C8_RetryAfterFailedDial ==
    \E i \in Interviews :
        /\ dial_failed[i]
        /\ dial_ok[i] = 0
        /\ status[i] = "scheduled"
        /\ Due(i)
        /\ Size(ticks) = 1
        /\ \E r \in DOMAIN ticks : r.pc = "loop" /\ Head(r.interviews) = i

\* C9: once start_call has set session_snapshot (the empty list included),
\* no step changes it.
C9_SnapshotImmutable ==
    [][\A i \in Interviews :
        session_snapshot[i] # Unset =>
            session_snapshot'[i] = session_snapshot[i]
      ]_vars

\* The q_index after the question with the given id (index_of(id) + 1).
IndexAfter(snapshot, id) ==
    IF \E k \in 1..Len(snapshot) : snapshot[k].id = id
    THEN CHOOSE k \in 1..Len(snapshot) : snapshot[k].id = id
    ELSE 0

\* C10: when time_check sends a call of an interview whose
\* last_completed_q_id is Q_k on to the questions, the first q_index is
\* index_of(Q_k) + 1, not 0 (so past the end, hence reverse_qa, when Q_k is
\* the last snapshot question).
C10_ResumeFromNextQuestion ==
    [][\A i \in Interviews :
        (/\ call[i].pc = "gather"
         /\ call'[i].pc = "question"
         /\ last_completed_q_id[i] # Unset) =>
            call'[i].q_index =
                IndexAfter(Value(session_snapshot[i]), Value(last_completed_q_id[i]))
      ]_vars

\* C11: closing out the answer to question q_index, 0 <= q_index < len of the
\* snapshot, appends exactly one review for snapshot[q_index], sets
\* last_completed_q_id to that question's id, and makes the next request
\* /voice/question with q_index + 1, which asks the next snapshot question
\* when there is one.
C11_AnswerAdvances ==
    [][
        \A i \in Interviews :
            /\ \A RecordingUrl \in RecordingUrls :
                  (/\ save_recording_on(i, RecordingUrl)
                   /\ 0 <= call[i].q_index
                   /\ call[i].q_index < Len(Value(session_snapshot[i])))
                  => LET q == Value(session_snapshot[i])[call[i].q_index + 1] IN
                      /\ Len(reviews'[i]) = Len(reviews[i]) + 1
                      /\ SubSeq(reviews'[i], 1, Len(reviews[i])) = reviews[i]
                      /\ reviews'[i][Len(reviews'[i])].question_id = q.id
                      /\ reviews'[i][Len(reviews'[i])].question_text = q.text
                      /\ last_completed_q_id'[i] = Some(q.id)
                      /\ call'[i].pc = "question"
                      /\ call'[i].q_index = call[i].q_index + 1
            /\ (/\ ask_question(i)
                /\ call[i].q_index < Len(Value(session_snapshot[i])))
               => /\ call'[i].q_index = call[i].q_index
                  /\ \E k \in 1..Len(call'[i].response) :
                        call'[i].response[k] =
                            Say(Value(session_snapshot[i])[call[i].q_index + 1].text)
      ]_vars

\* The first of two questions has been answered and the second one is asked.
W_C11_SecondQuestionAsked ==
    \E i \in Interviews :
        /\ session_snapshot[i] # Unset
        /\ Len(Value(session_snapshot[i])) = 2
        /\ call[i].pc = "record"
        /\ call[i].q_index = 1
        /\ reviews[i] # <<>>
        /\ reviews[i][Len(reviews[i])].question_id = Value(session_snapshot[i])[1].id
        /\ last_completed_q_id[i] = Some(Value(session_snapshot[i])[1].id)

\* C12: a time-check input that carries no negative token (affirmative,
\* ambiguous or empty) sets current_stage to main_qa and redirects to the
\* first question, q_index = 0.
C12_NoNegativeStartsMainQA ==
    [][
        \A i \in Interviews :
          (call[i].pc = "gather" /\ call'[i] # call[i]) =>
          \A SpeechResult \in SpeechResults, Digits \in DigitsValues :
            (/\ time_check_on(i, SpeechResult, Digits)
             /\ ~ContainsAny(InputVal(SpeechResult, Digits), negative))
            => /\ current_stage'[i] = "main_qa"
               /\ call'[i].pc = "question"
               /\ call'[i].q_index = 0
               /\ call'[i].response[Len(call'[i].response)] = Redirect("question")
      ]_vars

\* The time check has sent the call to the first question.
W_C12_MainQAStarted ==
    \E i \in Interviews :
        /\ current_stage[i] = "main_qa"
        /\ call[i].pc = "question"
        /\ call[i].q_index = 0
        /\ call[i].response = <<Say("thanks"), Say("instructions"),
                                Redirect("question")>>

\* C13: a time-check input that carries a negative token moves the stage to
\* ending, answers with the reschedule prompt, and asks no main question.
C13_NegativeEndsStage ==
    [][
        \A i \in Interviews :
          (call[i].pc = "gather" /\ call'[i] # call[i]) =>
          \A SpeechResult \in SpeechResults, Digits \in DigitsValues :
            (/\ time_check_on(i, SpeechResult, Digits)
             /\ ContainsAny(InputVal(SpeechResult, Digits), negative))
            => /\ current_stage'[i] = "ending"
               /\ \E k \in 1..Len(call'[i].response) :
                     call'[i].response[k] = Say("ask_reschedule")
               /\ call'[i].pc # "question"
      ]_vars

\* C14: in reverse_qa an utterance that contains an exit token goes to the
\* ending (/voice/end) and logs nothing; any other non-empty utterance
\* appends exactly one log entry after the entries logged before (which it
\* keeps), has its topic echoed, and returns to listening for a further
\* question. The answer is the one the caller gets while still on the line.
C14_ReverseQALoop ==
    [][
        \A i \in Interviews, text \in Transcripts \ {<<>>} :
            reverse_qa_process_resume(i, text)
            => LET on_line == call[i].pc = "reverse_qa_wait" IN
               IF \E k \in 1..Len(text) :
                     Parts(Lower(text[k])) \cap exit_triggers # {}
               THEN /\ reverse_qa_logs'[i] = reverse_qa_logs[i]
                    /\ on_line => /\ call'[i].pc = "end"
                                  /\ call'[i].response = <<Redirect("end")>>
               ELSE /\ Len(reverse_qa_logs'[i]) = Len(reverse_qa_logs[i]) + 1
                    /\ SubSeq(reverse_qa_logs'[i], 1, Len(reverse_qa_logs[i]))
                          = reverse_qa_logs[i]
                    /\ reverse_qa_logs'[i][Len(reverse_qa_logs'[i])].question = text
                    /\ on_line
                       => /\ call'[i].response =
                                <<Say(reverse_qa_logs'[i][Len(reverse_qa_logs'[i])].topic),
                                  Redirect("reverse_qa_listen")>>
                          /\ call'[i].pc = "reverse_qa_listen"
      ]_vars

\* The loop has gone round: a second question has been logged behind the
\* first and echoed, and the call listens again.
W_C14_SecondQuestionLogged ==
    \E i \in Interviews :
        /\ call[i].pc = "reverse_qa_listen"
        /\ ~call[i].first_time
        /\ Len(reverse_qa_logs[i]) = 2
        /\ reverse_qa_logs[i][1].question # reverse_qa_logs[i][2].question
        /\ call[i].response =
              <<Say(reverse_qa_logs[i][Len(reverse_qa_logs[i])].topic),
                Redirect("reverse_qa_listen")>>

\* C15: /voice/end sets status = completed and current_stage = ending in one
\* step and answers with closing remarks followed by hangup; after it no
\* step of the same call (its hangup, its status callback) changes
\* current_stage or status.
C15_EndingTerminal ==
    [][
        \A i \in Interviews :
            /\ end_call(i)
               => /\ status'[i] = "completed"
                  /\ current_stage'[i] = "ending"
                  /\ call'[i].response[Len(call'[i].response)] = Hangup
                  /\ \A k \in 1..(Len(call'[i].response) - 1) :
                        call'[i].response[k].verb = "say"
                  /\ Len(call'[i].response) > 1
            /\ (/\ call[i].pc = "hangup"
                /\ current_stage[i] = "ending"
                /\ call'[i] # call[i])
               => /\ status'[i] = status[i]
                  /\ current_stage'[i] = current_stage[i]
            /\ \A cs \in CallStatuses :
                  (call_status(i, cs) /\ current_stage[i] = "ending")
                  => /\ status'[i] = status[i]
                     /\ current_stage'[i] = current_stage[i]
      ]_vars

\* /voice/end has answered: the interview is completed, at the ending.
W_C15_Ended ==
    \E i \in Interviews :
        /\ call[i].pc = "hangup"
        /\ call[i].response[Len(call[i].response)] = Hangup
        /\ call[i].response[1] = Say("closing")
        /\ status[i] = "completed"
        /\ current_stage[i] = "ending"

\* The correction table and the keyword blocklist of the review
\* post-processing.
CorrectWord(w) == CASE w = "shiboudoki" -> "shiboudouki" [] OTHER -> w
Correct(text) == [k \in 1..Len(text) |-> CorrectWord(text[k])]
Blocklist == {"kinku"}

\* C16: every persisted review has compliance_flag = TRUE exactly when its
\* corrected transcript contains a blocklisted token.
C16_ComplianceFlag ==
    \A i \in Interviews : \A k \in 1..Len(reviews[i]) :
        reviews[i][k].transcript # Unset
        => reviews[i][k].compliance_flag =
              ContainsAny(Correct(Value(reviews[i][k].transcript)), Blocklist)

\* What a step of the relay sent to the AI session, and how often a message
\* type occurs in a sequence of messages.
Sent == SubSeq(to_openai', Len(to_openai) + 1, Len(to_openai'))
Times(msgs, type) == Cardinality({k \in 1..Len(msgs) : msgs[k].type = type})
CommitRespond ==
    <<Msg("input_audio_buffer.commit", ""), Msg("response.create", "")>>

\* C17: a speech segment (2 or more consecutive frames above the threshold)
\* followed by a silence gap of at least 600 ms yields exactly one
\* commit-and-respond action: the frame that closes the gap sends
\* input_audio_buffer.commit and goes on to send response.create, and no
\* frame outside such a segment end sends either.
C17_OneCommitPerSegment ==
    [][
        /\ TwilioVad
           => IF /\ is_speaking
                 /\ Rms(audio_payload) <= 600
                 /\ time_ms - last_speech_time >= 600
              THEN /\ Sent = <<CommitRespond[1]>>
                   /\ twilio_loop' = "committed"
              ELSE /\ Sent = <<>>
                   /\ twilio_loop' = "running"
        /\ TwilioRespond => Sent = <<CommitRespond[2]>>
      ]_vars

\* C18: a speech-started signal received while ai_is_speaking is true makes
\* the relay send response.cancel to the AI session and clear to the
\* telephony leg, and never more than one of each in the step.
C18_BargeInCancelsOnce ==
    [][
        (/\ ReceiveOpenAI
         /\ Head(from_openai).type = "input_audio_buffer.speech_started"
         /\ ai_is_speaking)
        => /\ Times(to_openai', "response.cancel") >= 1
           /\ Times(to_twilio', "clear") >= 1
           /\ Times(to_openai', "response.cancel")
                 <= Times(to_openai, "response.cancel") + 1
           /\ Times(to_twilio', "clear") <= Times(to_twilio, "clear") + 1
      ]_vars

\* C19: the relay sends no commit-and-respond action while a response it
\* requested before (the greeting, or the one after get_current_date) is
\* still being generated.
C19_NoCommitWhileGenerating ==
    [][
        (/\ TwilioVad
         /\ Times(Sent, "input_audio_buffer.commit") > 0)
        => ai_response.requested = 0
      ]_vars

\* C20: when the VAD declares the end of speech while ai_is_speaking is true
\* nothing is committed at that moment, and the utterance is committed and a
\* response requested when the AI's turn finishes (response.audio.done).
C20_DeferredCommit ==
    [][
        /\ (/\ TwilioVad
            /\ is_speaking /\ ~is_speaking'
            /\ ai_is_speaking)
           => /\ Sent = <<>>
              /\ twilio_loop' = "running"
        /\ (/\ ReceiveOpenAI
            /\ Head(from_openai).type = "response.audio.done"
            /\ buffered_for_later)
           => to_openai' = to_openai \o CommitRespond
      ]_vars

\* The frames appended to the AI session's input buffer, in order.
Appends == SelectSeq(to_openai, LAMBDA m : m.type = "input_audio_buffer.append")

\* C21: every inbound media frame makes the relay send exactly one
\* input_audio_buffer.append with the frame's payload, after everything sent
\* before and ahead of anything else the frame causes, whatever
\* ai_is_speaking and is_speaking are; no other step of the relay sends an
\* append.
C21_EveryFrameAppended ==
    [][
        /\ \A payload \in Payloads :
              TwilioMedia(payload)
              => /\ Sent = <<Msg("input_audio_buffer.append", payload)>>
                 /\ SubSeq(to_openai', 1, Len(to_openai)) = to_openai
                 /\ twilio_loop' = "vad"
        /\ Times(Sent, "input_audio_buffer.append") > 0
           => \E payload \in Payloads : TwilioMedia(payload)
      ]_vars

\* Frames have been appended up to one that came while the user was
\* speaking and the AI was speaking.
W_C21_AppendedWhileBothSpeak ==
    /\ ai_is_speaking
    /\ is_speaking
    /\ Len(Appends) >= 3
    /\ to_openai[Len(to_openai)].type = "input_audio_buffer.append"

\* C22: every response.audio.delta the relay receives is forwarded to the
\* telephony leg as one media event with the same payload, tagged with the
\* stream identifier, also when it arrives before the start event.
C22_EveryDeltaForwarded ==
    [][
        (/\ ReceiveOpenAI
         /\ Head(from_openai).type = "response.audio.delta"
         /\ websocket = "open")
        => /\ Len(to_twilio') = Len(to_twilio) + 1
           /\ SubSeq(to_twilio', 1, Len(to_twilio)) = to_twilio
           /\ to_twilio'[Len(to_twilio')].type = "media"
           /\ to_twilio'[Len(to_twilio')].arg = Head(from_openai).arg
           /\ stream_sid # None
                 => to_twilio'[Len(to_twilio')].streamSid = stream_sid
      ]_vars

\* C23: the relay never closes the telephony leg while the AI session is
\* still open.
C23_AISessionClosedFirst ==
    websocket = "closed" => openai_ws # "open"

\* C24: after a stop event (the telephony loop is done), or after the loss
\* of either connection, both loops terminate and the AI session is closed,
\* with no further message from either peer.
C24_LoopsTerminate ==
    (twilio_loop = "done" \/ websocket = "lost" \/ openai_ws = "lost")
    ~> (twilio_loop = "done" /\ openai_loop = "done" /\ openai_ws # "open")

\* C29: is_speaking becomes true only in the VAD of a frame above the
\* threshold whose predecessor was above it too; a frame at or below the
\* threshold resets the counter; and a commit is sent only when is_speaking
\* was true, a response.create of the VAD only after such a commit.
C29_SpeechStartDebounced ==
    [][
        /\ (~is_speaking /\ is_speaking') => TwilioVad
        /\ TwilioVad
           => /\ (~is_speaking /\ is_speaking')
                 => /\ Rms(audio_payload) > 600
                    /\ Len(Appends) >= 2
                    /\ Rms(Appends[Len(Appends) - 1].arg) > 600
              /\ Rms(audio_payload) <= 600 => consecutive_voice_count' = 0
              /\ Times(Sent, "input_audio_buffer.commit") > 0 => is_speaking
        /\ Times(Sent, "input_audio_buffer.commit") > 0 => TwilioVad
        /\ (twilio_loop # "committed" /\ twilio_loop' = "committed")
           => TwilioVad /\ is_speaking
      ]_vars

\* One frame above the threshold came between two frames below it, all
\* three have been through the VAD, and the relay neither declared speech
\* nor committed.
W_C29_SingleLoudFrameIgnored ==
    /\ Len(Appends) = 3
    /\ Rms(Appends[1].arg) <= 600
    /\ Rms(Appends[2].arg) > 600
    /\ Rms(Appends[3].arg) <= 600
    /\ twilio_loop = "running"
    /\ ~is_speaking
    /\ consecutive_voice_count = 0
    /\ Times(to_openai, "input_audio_buffer.commit") = 0

\* C30: on a completed function call get_current_date the relay sends one
\* conversation.item.create with the call's call_id and only then one
\* response.create: the handler's first send is the function result and
\* nothing else, its second send is response.create and nothing else, and it
\* sends no response.create before the function result. What the other loop
\* sends between the two is not the handler's.
C30_FunctionResultThenResponse ==
    [][
        /\ (/\ ReceiveOpenAI
            /\ Head(from_openai).type = "response.function_call_arguments.done"
            /\ Head(from_openai).arg = "get_current_date"
            /\ openai_ws = "open")
           => /\ Sent = <<Msg("conversation.item.create",
                              Head(from_openai).call_id)>>
              /\ openai_loop' = "function_result"
        /\ (FunctionRespond /\ openai_ws = "open")
           => /\ Sent = <<Msg("response.create", "")>>
              /\ \E k \in 1..Len(to_openai) :
                    to_openai[k] = Msg("conversation.item.create", call_id)
              /\ openai_loop' = "running"
      ]_vars

\* The result of the call call_2 has been sent, a frame of the caller has
\* been appended by the other loop, and the handler's response.create has
\* followed.
W_C30_ResultSent ==
    \E k \in 1..(Len(to_openai) - 2) :
        /\ to_openai[k] = Msg("conversation.item.create", "call_2")
        /\ to_openai[k + 1].type = "input_audio_buffer.append"
        /\ to_openai[k + 2] = Msg("response.create", "")
        /\ openai_loop = "running"

\* C25: within one call current_stage only moves forward in the order
\* greeting, time_check, main_qa, reverse_qa, ending: no step sets it to an
\* earlier stage than the one it holds, except the re-entry of a re-dialed
\* call (its /voice/call and /voice/time_check requests).
StageRank(stage) ==
    CASE stage = None -> 0
      [] stage = "greeting" -> 1
      [] stage = "time_check" -> 2
      [] stage = "main_qa" -> 3
      [] stage = "reverse_qa" -> 4
      [] stage = "ending" -> 5

ResumeReentry(i) == dial_ok[i] > 1 /\ call[i].pc \in {"call", "gather"}

C25_StageMovesForward ==
    [][\A i \in Interviews :
          \/ StageRank(current_stage'[i]) >= StageRank(current_stage[i])
          \/ ResumeReentry(i)]_vars

\* A call has moved from greeting through main_qa, with an answer
\* recorded, on to reverse_qa.
W_C25_ForwardToReverseQA ==
    \E i \in Interviews :
        /\ dial_ok[i] = 1
        /\ current_stage[i] = "reverse_qa"
        /\ call[i].pc = "reverse_qa_listen"
        /\ reviews[i] # <<>>

\* C27: reviews are append-only, one per answered question: at most one
\* review exists per snapshot question id over the life of an interview,
\* resumed calls included, and an existing review never changes except for
\* its transcript, which process_stt_background back-fills.
OneReviewPerQuestion ==
    \A i \in Interviews : \A a, b \in DOMAIN reviews[i] :
        a # b => reviews[i][a].question_id # reviews[i][b].question_id

ReviewsAppendOnly ==
    \A i \in Interviews :
        /\ Len(reviews'[i]) >= Len(reviews[i])
        /\ \A k \in DOMAIN reviews[i] :
              \/ reviews'[i][k] = reviews[i][k]
              \/ /\ [interview |-> i, review |-> k] \in stt_running
                 /\ [reviews'[i][k] EXCEPT !.transcript = Unset]
                        = [reviews[i][k] EXCEPT !.transcript = Unset]

C27_ReviewsAppendOnlyOnePerQuestion ==
    []OneReviewPerQuestion /\ [][ReviewsAppendOnly]_vars

\* C26: a snapshot question is asked, and a review written, only for a
\* cursor with 0 <= q_index < len(snapshot); for q_index >= len(snapshot) no
\* question is asked and the flow goes to reverse_qa_intro, which sets
\* current_stage to reverse_qa; so also for an empty snapshot and for a
\* negative q_index.
QuestionAsked(response) ==
    \E k \in DOMAIN response : response[k] = Record("record")

C26_QuestionOnlyInRange ==
    [][\A i \in Interviews :
          (i \in rows /\ session_snapshot[i] # Unset) =>
              LET q_index == call[i].q_index
                  len == Len(Value(session_snapshot[i]))
                  in_range == 0 <= q_index /\ q_index < len
              IN /\ ask_question(i) =>
                       /\ QuestionAsked(call'[i].response) => in_range
                       /\ q_index >= len =>
                              /\ ~QuestionAsked(call'[i].response)
                              /\ call'[i].pc = "reverse_qa_intro"
                 /\ save_recording(i) =>
                       (reviews'[i] # reviews[i] => in_range)
                 /\ reverse_qa_intro(i) => current_stage'[i] = "reverse_qa"
      ]_vars

\* C28: at every call-flow endpoint (call, time_check, question, record,
\* reverse_qa_intro, reverse_qa_process, end) a request whose interview has
\* no row, or (past /voice/call, which takes the snapshot) no snapshot, is
\* answered with a spoken message followed by a hangup, ends the call,
\* writes nothing to the store and places no call.
SpokenErrorThenHangup(response) ==
    /\ Len(response) >= 2
    /\ response[Len(response) - 1].verb = "say"
    /\ response[Len(response)] = Hangup

DataError(i) ==
    \/ i \notin rows
    \/ session_snapshot[i] = Unset /\ call[i].pc # "call"

FlowRequest(i) ==
    \/ start_call(i)
    \/ time_check(i)
    \/ ask_question(i)
    \/ save_recording(i)
    \/ reverse_qa_intro(i)
    \/ reverse_qa_process(i)
    \/ end_call(i)

C28_DataErrorEndsCall ==
    [][\A i \in Interviews :
          (DataError(i) /\ FlowRequest(i)) =>
              /\ SpokenErrorThenHangup(call'[i].response)
              /\ call'[i].pc = "hangup"
              /\ UNCHANGED <<interview_vars, placed, ticks>>
      ]_vars

\* C31: no field of the shared turn-taking state is written by both loops:
\* is_speaking, last_speech_time, consecutive_voice_count and stream_sid
\* change only in steps of receive_from_twilio, ai_is_speaking and
\* latest_media_timestamp only in steps of receive_from_openai, and each
\* loop's steps leave the other loop's fields unchanged.
TwilioFields == <<stream_sid, is_speaking, last_speech_time,
                  consecutive_voice_count>>
OpenAIFields == <<ai_is_speaking, latest_media_timestamp>>

C31_SingleWriterPerField ==
    [][
        /\ receive_from_twilio => UNCHANGED OpenAIFields
        /\ receive_from_openai => UNCHANGED TwilioFields
        /\ TwilioFields' # TwilioFields => receive_from_twilio
        /\ OpenAIFields' # OpenAIFields => receive_from_openai
      ]_vars

\* The caller's segment has ended (is_speaking set, then cleared by a quiet
\* frame) while the AI was speaking, and every field has been written.
W_C31_BothLoopsWrote ==
    /\ stream_sid # None
    /\ ~is_speaking
    /\ buffered_for_later
    /\ ai_is_speaking
    /\ latest_media_timestamp > 0

\* C32: in every reachable state last_completed_q_id is unset or the id of
\* a snapshot question that has a review of the same interview;
\* save_recording inserts the review and writes last_completed_q_id in one
\* commit, and no other step changes last_completed_q_id.
CompletedHasReview ==
    \A i \in Interviews :
        last_completed_q_id[i] # Unset =>
            /\ session_snapshot[i] # Unset
            /\ \E k \in DOMAIN Value(session_snapshot[i]) :
                  Value(session_snapshot[i])[k].id = Value(last_completed_q_id[i])
            /\ \E k \in DOMAIN reviews[i] :
                  reviews[i][k].question_id = Value(last_completed_q_id[i])

CompletedWrittenWithReview ==
    \A i \in Interviews :
        last_completed_q_id'[i] # last_completed_q_id[i] =>
            /\ save_recording(i)
            /\ Len(reviews'[i]) = Len(reviews[i]) + 1
            /\ reviews'[i][Len(reviews'[i])].question_id
                  = Value(last_completed_q_id'[i])

C32_LastCompletedHasReview ==
    []CompletedHasReview /\ [][CompletedWrittenWithReview]_vars

\* The second question has been answered: two reviews, cursor on question 2.
W_C32_SecondAnswerCommitted ==
    \E i \in Interviews :
        /\ last_completed_q_id[i] = Some(2)
        /\ Len(reviews[i]) = 2
        /\ reviews[i][2].question_id = 2

\* C33: start_call changes the interview only when its snapshot is unset or
\* empty: it then sets the snapshot, status = in_progress and current_stage
\* = greeting together; with a non-empty snapshot it leaves status,
\* current_stage, session_snapshot and last_completed_q_id unchanged, so a
\* re-dialed interview keeps its status (calling) and its previous stage.
HasQuestions(i) ==
    session_snapshot[i] # Unset /\ Len(Value(session_snapshot[i])) > 0

C33_StartCallFrame ==
    [][\A i \in Interviews :
          (i \in rows /\ start_call(i)) =>
              /\ IF HasQuestions(i)
                 THEN UNCHANGED <<status, current_stage, session_snapshot>>
                 ELSE /\ session_snapshot'[i] = Some(TakeSnapshot(question_bank))
                      /\ status'[i] = "in_progress"
                      /\ current_stage'[i] = "greeting"
              /\ UNCHANGED <<last_completed_q_id, reservation_time,
                             resume_count, retry_count, reviews,
                             reverse_qa_logs, stt_tasks, stt_running,
                             qa_running, notifications>>
      ]_vars

\* An interview whose earlier call dropped in main_qa, after a further
\* /voice/call: still calling, still in that stage, its answers kept.
W_C33_RedialedKeepsCalling ==
    \E i \in Interviews :
        /\ call[i].pc = "gather"
        /\ call[i].response # <<>>
        /\ status[i] = "calling"
        /\ current_stage[i] = "main_qa"
        /\ last_completed_q_id[i] # Unset

\* C34: in time_check the negative branch takes precedence: an utterance
\* with both an affirmative and a negative token takes the reschedule
\* branch and leaves current_stage unchanged; a keypad digit 1 or 2
\* replaces the speech result, so digit 1 always takes the affirmative
\* branch and digit 2 always the negative one, whatever was spoken.
HasToken(SpeechResult, words) ==
    /\ SpeechResult # Unset
    /\ \E k \in DOMAIN Value(SpeechResult) :
          Parts(Lower(Value(SpeechResult)[k])) \cap words # {}

TookReschedule(i) ==
    /\ call'[i].pc = "reschedule_record"
    /\ current_stage'[i] = current_stage[i]

TookAffirmative(i) ==
    /\ call'[i].pc = "question"
    /\ current_stage'[i] = "main_qa"

C34_NegativeFirstDigitsOverride ==
    [][\A i \in Interviews :
          (i \in rows /\ call[i].pc = "gather" /\ call'[i] # call[i]) =>
              \A SpeechResult \in SpeechResults, Digits \in DigitsValues :
                  time_check_on(i, SpeechResult, Digits) =>
                      /\ Digits = "1" => TookAffirmative(i)
                      /\ Digits = "2" => TookReschedule(i)
                      /\ (/\ Digits = None
                          /\ HasToken(SpeechResult, positive)
                          /\ HasToken(SpeechResult, negative))
                            => TookReschedule(i)
      ]_vars

\* The reschedule branch has been taken from the greeting.
W_C34_RescheduleFromGreeting ==
    \E i \in Interviews :
        /\ call[i].pc = "reschedule_record"
        /\ call[i].response = <<Say("understood"), Say("ask_reschedule"),
                                 Record("save_reschedule")>>
        /\ current_stage[i] = "greeting"
        /\ status[i] = "in_progress"

====
